---- MODULE Spec2Model ----
(***************************************************************************)
(* Model of the ember-language-server core: the project registry           *)
(* (src/src/project-roots.ts) and the request handlers of the server       *)
(* (src/src/server.ts).                                                    *)
(*                                                                         *)
(* JavaScript strings are sequences of one-character strings, so that      *)
(* String.indexOf, String.length, path.extname and String.endsWith are     *)
(* computed on characters.  A falsy path (undefined or '') is <<>>: the    *)
(* code only ever tests paths with `!path`.                                *)
(***************************************************************************)
EXTENDS Integers, Sequences, FiniteSets, TLC

VARIABLES
  projects,      \* ProjectRoots.projects: insertion-ordered Map root -> Project
  workspaceRoot, \* ProjectRoots.workspaceRoot
  nextId,        \* identity of the next Project object `new Project` creates
  hookCalls,     \* init-hook invocations made by the last handler, in order
  initializeCount, \* initialize requests received so far
  completion,    \* the completion request in flight (an async function)
  response       \* what the last finished handler returned or raised

vars ==
  <<projects, workspaceRoot, nextId, hookCalls, initializeCount, completion,
    response>>

----------------------------------------------------------------------------
(* Bounds *)

\* at most this many Project objects are constructed in one behaviour
MaxProjects == 2

\* at most this many marker files are found by one scan
MaxScan == 2

\* at most this many initialize requests are received in one behaviour
MaxInitialize == 1

----------------------------------------------------------------------------
(* Strings *)

\* String.prototype.indexOf: the 0-based position of the first occurrence of t
\* in s, -1 when there is none
IndexOf(s, t) ==
  LET hits == { i \in 0..(Len(s) - Len(t)) : SubSeq(s, i + 1, i + Len(t)) = t }
  IN IF hits = {} THEN -1 ELSE CHOOSE i \in hits : \A j \in hits : i <= j

\* String.prototype.endsWith
EndsWith(s, t) ==
  Len(t) <= Len(s) /\ SubSeq(s, Len(s) - Len(t) + 1, Len(s)) = t

\* 0-based position of the last occurrence of character c in s, -1 when none
LastIndexOf(s, c) ==
  LET hits == { i \in 0..(Len(s) - 1) : s[i + 1] = c }
  IN IF hits = {} THEN -1 ELSE CHOOSE i \in hits : \A j \in hits : j <= i

RECURSIVE Split(_, _)
\* String.prototype.split('/'): the segments between the separators
Split(s, c) ==
  LET i == IndexOf(s, <<c>>)
  IN IF i = -1 THEN <<s>>
     ELSE <<SubSeq(s, 1, i)>> \o Split(SubSeq(s, i + 2, Len(s)), c)

\* Array.prototype.join('/')
RECURSIVE JoinSlash(_)
JoinSlash(segs) ==
  IF segs = <<>> THEN <<>>
  ELSE IF Len(segs) = 1 THEN Head(segs)
  ELSE Head(segs) \o <<"/">> \o JoinSlash(Tail(segs))

RECURSIVE NormalizeSegments(_, _)
\* the segment pass of path.normalize on an absolute POSIX path: '' and '.'
\* are dropped, '..' removes the segment before it (and is dropped at the root)
NormalizeSegments(segs, acc) ==
  IF segs = <<>> THEN acc
  ELSE LET s == Head(segs)
       IN IF s = <<>> \/ s = <<".">> THEN NormalizeSegments(Tail(segs), acc)
          ELSE IF s = <<".", ".">>
               THEN NormalizeSegments(Tail(segs),
                      IF acc = <<>> THEN acc ELSE SubSeq(acc, 1, Len(acc) - 1))
               ELSE NormalizeSegments(Tail(segs), Append(acc, s))

\* path.normalize of an absolute POSIX path
PathNormalize(p) ==
  LET segs == NormalizeSegments(Split(p, "/"), <<>>)
      trailing == Len(p) > 1 /\ p[Len(p)] = "/" /\ segs # <<>>
  IN <<"/">> \o JoinSlash(segs) \o (IF trailing THEN <<"/">> ELSE <<>>)

\* path.join(a, b) for an absolute a and a relative b
PathJoin(a, b) == PathNormalize(a \o <<"/">> \o b)

\* path.dirname of a normalized absolute path
PathDirname(p) ==
  LET i == LastIndexOf(p, "/")
  IN IF i <= 0 THEN <<"/">> ELSE SubSeq(p, 1, i)

\* path.basename
PathBasename(p) == SubSeq(p, LastIndexOf(p, "/") + 2, Len(p))

\* path.extname: from the last '.' of the basename to the end; '' when there
\* is no '.' or the only '.' starts the basename
PathExtname(p) ==
  LET b == PathBasename(p)
      i == LastIndexOf(b, ".")
  IN IF i <= 0 THEN <<>> ELSE SubSeq(b, i + 1, Len(b))

\* uriToFilePath (vscode-languageserver/lib/files): undefined unless the URI has
\* the file: protocol and a path; otherwise the normalized path
uriToFilePath(uri) ==
  IF uri.protocol # "file:" \/ uri.path = <<>> THEN <<>>
  ELSE PathNormalize(uri.path)

----------------------------------------------------------------------------
(* The paths, documents and marker files of the modelled workspace *)

WsRoot     == <<"/", "w">>
RootA      == <<"/", "w", "/", "a">>
RootAB     == <<"/", "w", "/", "a", "b">>
RootNested == <<"/", "w", "/", "a", "/", "b">>
RootB      == <<"/", "w", "/", "b">>

\* the paths a client passes to els:registerProjectPath
CommandPaths == {RootA, RootAB, RootNested, RootB}

ExtJs  == <<".", "j", "s">>
ExtHbs == <<".", "h", "b", "s">>

FileNames == { <<"x">> \o ExtJs, <<"x">> \o ExtHbs, <<"x">> }

\* the directories documents live in: the roots, the workspace itself, one
\* directory no root is a prefix of, and a path that leaves /w/b through '..'
DocDirs ==
  CommandPaths \cup
  { WsRoot, <<"/", "w", "/", "c">>, RootB \o <<"/", ".", ".", "/", "a">> }

FileUri(p) == [protocol |-> "file:", path |-> p]

\* every document URI the properties quantify over
DocUris ==
  { FileUri(d \o <<"/">> \o f) : d \in DocDirs, f \in FileNames }
  \cup { [protocol |-> "untitled:", path |-> <<"/", "x">> \o ExtJs] }

\* the document URIs of the modelled symbol requests
SymbolUris ==
  { FileUri(RootA \o <<"/", "x">> \o ExtJs),
    FileUri(RootA \o <<"/", "x">> \o ExtHbs),
    FileUri(<<"/", "w", "/", "c", "/", "x">>),
    [protocol |-> "untitled:", path |-> <<"/", "x">> \o ExtJs] }

EmberCliBuild ==
  <<"e", "m", "b", "e", "r", "-", "c", "l", "i", "-",
    "b", "u", "i", "l", "d", ".", "j", "s">>
PackageJson ==
  <<"p", "a", "c", "k", "a", "g", "e", ".", "j", "s", "o", "n">>

\* every marker file the globs of the scan can match in the workspace, in the
\* order walkSync lists them (depth first, each directory sorted)
WalkOrder ==
  << <<"a", "/", "b", "/">> \o EmberCliBuild,
     <<"a", "/">> \o EmberCliBuild,
     <<"a", "/">> \o PackageJson,
     <<"b", "/">> \o PackageJson >>

\* what isGlimmerNativeProject(dir) || isGlimmerXProject(dir) does on the
\* manifest of a directory: it is true, it is false, or it throws
ManifestKinds == {"glimmer", "plain", "malformed"}

----------------------------------------------------------------------------
(* Providers *)

\* Server.documentSymbolProviders
documentSymbolProviders ==
  << [name |-> "JSDocumentSymbolProvider", extensions |-> <<ExtJs>>],
     [name |-> "HBSDocumentSymbolProvider", extensions |-> <<ExtHbs>>] >>

\* initBuiltinProviders(): the built-in provider set of a project
initBuiltinProviders ==
  [initHandlers |-> <<>>, symbolProviders |-> documentSymbolProviders]

\* collectProjectProviders(root): the providers contributed by the addons the
\* project at root depends on
collectProjectProviders(root) ==
  IF root = RootA
  THEN [initHandlers |-> << [name |-> "a-init", throws |-> FALSE] >>,
        symbolProviders |->
          << [name |-> "AddonSymbolProvider", extensions |-> <<ExtJs>>] >>]
  ELSE IF root = RootNested
  THEN [initHandlers |-> << [name |-> "n-first", throws |-> TRUE],
                            [name |-> "n-second", throws |-> FALSE] >>,
        symbolProviders |-> <<>>]
  ELSE IF root = RootB
  THEN [initHandlers |-> << [name |-> "b-first", throws |-> FALSE],
                            [name |-> "b-second", throws |-> TRUE],
                            [name |-> "b-third", throws |-> FALSE] >>,
        symbolProviders |-> <<>>]
  ELSE [initHandlers |-> <<>>, symbolProviders |-> <<>>]

\* new Project(root): the object with identity id
Project(root, id) ==
  [root |-> root, id |-> id,
   providers |-> collectProjectProviders(root),
   builtinProviders |-> initBuiltinProviders]

\* `undefined` where a Project is expected
NoProject ==
  [root |-> <<>>, id |-> 0,
   providers |-> [initHandlers |-> <<>>, symbolProviders |-> <<>>],
   builtinProviders |-> [initHandlers |-> <<>>, symbolProviders |-> <<>>]]

----------------------------------------------------------------------------
(* The registry: ProjectRoots *)

\* Map.prototype.keys, in insertion order
MapKeys(m) == [i \in DOMAIN m |-> m[i].key]

MapHas(m, k) == \E i \in DOMAIN m : m[i].key = k

\* Map.prototype.get
MapGet(m, k) ==
  IF MapHas(m, k) THEN m[CHOOSE i \in DOMAIN m : m[i].key = k].value
  ELSE NoProject

\* Map.prototype.set: a new key is appended, an existing key keeps its place
\* and gets the new value
MapSet(m, k, v) ==
  IF MapHas(m, k)
  THEN [i \in DOMAIN m |-> IF m[i].key = k THEN [key |-> k, value |-> v] ELSE m[i]]
  ELSE Append(m, [key |-> k, value |-> v])

\* uriToFilePath, tabulated over the URIs of the model
RootUris == { FileUri(WsRoot), [protocol |-> "untitled:", path |-> WsRoot] }

filePathOf == [uri \in DocUris \cup SymbolUris \cup RootUris |-> uriToFilePath(uri)]

\* the reduce callback with its comparison inverted
Shorter(a, b) == IF Len(a) < Len(b) THEN a ELSE b

\* the reduce callback that keeps the element met last
Later(a, b) == b

\* the callback of the reduce in projectForUri
Longer(a, b) == IF Len(a) > Len(b) THEN a ELSE b

RECURSIVE ReduceLonger(_, _)
\* Array.prototype.reduce(Longer, acc) from left to right
ReduceLonger(s, acc) ==
  IF s = <<>> THEN acc ELSE ReduceLonger(Tail(s), Longer(acc, Head(s)))

\* the filter callback of projectForUri
IsRootOf(root, path) == IndexOf(path, root) = 0

\* ProjectRoots.projectForUri on the registry m
ProjectFor(m, uri) ==
  LET path == filePathOf[uri]
  IN IF path = <<>> THEN NoProject
     ELSE LET matching == SelectSeq(MapKeys(m), LAMBDA root : IsRootOf(root, path))
              root == ReduceLonger(matching, <<>>)
          IN MapGet(m, root)

projectForUri(uri) == ProjectFor(projects, uri)

RECURSIVE RunInitHandlersUnguarded(_, _, _, _, _)
\* the forEach without its try/catch: the first hook that throws ends the loop
RunInitHandlersUnguarded(handlers, i, path, project, m) ==
  IF i > Len(handlers) THEN <<>>
  ELSE << [handler |-> handlers[i].name, index |-> i, path |-> path,
           server |-> "Server", project |-> project.id,
           threw |-> handlers[i].throws,
           published |-> MapGet(m, path) = project,
           found |-> ProjectFor(m, FileUri(path \o <<"/", "x">> \o ExtJs)).root] >>
       \o IF handlers[i].throws THEN <<>>
          ELSE RunInitHandlersUnguarded(handlers, i + 1, path, project, m)

RECURSIVE RunInitHandlers(_, _, _, _, _)
\* the forEach of onProjectAdd over project.providers.initHandlers, from
\* handler i on: each call is logged with its arguments, the object whose
\* hook it is, and whether the registry already holds the root; a throw is
\* caught and the loop goes on; found is what projectForUri answers the hook
\* for the document x.js of its root
RunInitHandlers(handlers, i, path, project, m) ==
  IF i > Len(handlers) THEN <<>>
  ELSE << [handler |-> handlers[i].name, index |-> i, path |-> path,
           server |-> "Server", project |-> project.id,
           threw |-> handlers[i].throws,
           published |-> MapGet(m, path) = project,
           found |-> ProjectFor(m, FileUri(path \o <<"/", "x">> \o ExtJs)).root] >>
       \o RunInitHandlers(handlers, i + 1, path, project, m)

\* onProjectAdd with projects.set moved after the forEach: the hooks run
\* before the project is in the registry
onProjectAddHooksFirst(st, path) ==
  LET project == Project(path, st.nextId)
  IN [projects |-> MapSet(st.projects, path, project),
      nextId |-> st.nextId + 1,
      hookCalls |-> st.hookCalls \o
        RunInitHandlers(project.providers.initHandlers, 1, path, project, st.projects)]

\* ProjectRoots.onProjectAdd on the registry state st = [projects, nextId,
\* hookCalls]
onProjectAdd(st, path) ==
  LET project == Project(path, st.nextId)
      m == MapSet(st.projects, path, project)
  IN [projects |-> m,
      nextId |-> st.nextId + 1,
      hookCalls |-> st.hookCalls \o
        RunInitHandlers(project.providers.initHandlers, 1, path, project, m)]

\* path.join(workspaceRoot, rootPath) and its path.dirname, tabulated over the
\* marker files of the model
markerPaths ==
  [ws \in {WsRoot}, rootPath \in { WalkOrder[i] : i \in DOMAIN WalkOrder } |->
     [filePath |-> PathJoin(ws, rootPath),
      fullPath |-> PathDirname(PathJoin(ws, rootPath))]]

RECURSIVE ScanRootsUncaught(_, _, _)
\* the forEach without the try/catch around the project-kind test: a test that
\* throws on a malformed manifest ends the scan where it stands
ScanRootsUncaught(st, ws, roots) ==
  IF roots = <<>> THEN st
  ELSE LET rootPath == Head(roots).file
           filePath == markerPaths[ws, rootPath].filePath
           fullPath == markerPaths[ws, rootPath].fullPath
       IN IF EndsWith(filePath, PackageJson)
          THEN IF Head(roots).kind = "malformed" THEN st
               ELSE ScanRootsUncaught(IF Head(roots).kind = "glimmer"
                                      THEN onProjectAdd(st, fullPath) ELSE st,
                                      ws, Tail(roots))
          ELSE ScanRootsUncaught(onProjectAdd(st, fullPath), ws, Tail(roots))

\* a scan that gives the turn back after its first candidate: the other
\* candidates are not registered when initialize returns
ScanRootsFirstOnly(st, ws, roots) ==
  IF roots = <<>> THEN st
  ELSE LET filePath == markerPaths[ws, Head(roots).file].filePath
           fullPath == markerPaths[ws, Head(roots).file].fullPath
       IN IF EndsWith(filePath, PackageJson) /\ Head(roots).kind # "glimmer"
          THEN st
          ELSE onProjectAdd(st, fullPath)

RECURSIVE ScanRoots(_, _, _)
\* the forEach of ProjectRoots.initialize over the walkSync result `roots`, a
\* sequence of [file, kind]
ScanRoots(st, ws, roots) ==
  IF roots = <<>> THEN st
  ELSE LET rootPath == Head(roots).file
           filePath == markerPaths[ws, rootPath].filePath
           fullPath == markerPaths[ws, rootPath].fullPath
           next ==
             IF EndsWith(filePath, PackageJson)
             THEN IF Head(roots).kind = "glimmer"
                  THEN onProjectAdd(st, fullPath)
                  ELSE st
             ELSE onProjectAdd(st, fullPath)
       IN ScanRoots(next, ws, Tail(roots))

----------------------------------------------------------------------------
(* Requests and responses *)

\* a null or undefined rootUri
NullUri == [protocol |-> "", path |-> <<>>]

NoParams == [command |-> "", path |-> <<>>]

RegisterCommand == "els:registerProjectPath"

\* Server.capabilities returned as it is, without the Object.assign that
\* merges textDocumentSync into it
CapabilitiesWithoutSync ==
  {"definitionProvider", "executeCommandProvider:els:registerProjectPath",
   "documentSymbolProvider", "referencesProvider", "completionProvider"}

\* Server.capabilities merged with textDocumentSync by onInitialize
FullCapabilities ==
  {"definitionProvider", "executeCommandProvider:els:registerProjectPath",
   "documentSymbolProvider", "referencesProvider", "completionProvider",
   "textDocumentSync"}

\* the record of a finished handler: its inputs, what it returned (result,
\* capabilities) or that it raised (status "error"), and what it called on
\* the way (invoked: the providers in call order, reads: readFileSync calls)
NoResponse ==
  [op |-> "none", status |-> "ok", uri |-> NullUri, params |-> NoParams,
   rootPath |-> <<>>, readable |-> FALSE, throwers |-> {}, template |-> "",
   script |-> "", scan |-> <<>>, result |-> <<>>, capabilities |-> {}, invoked |-> <<>>,
   reads |-> 0]

Idle == [pc |-> "idle", template |-> "", script |-> "",
         templateCompletions |-> <<>>, invoked |-> <<>>]

\* what a provider call does: it throws an Error synchronously, it returns a
\* promise that rejects with an Error, it returns a promise that rejects with
\* no reason (Promise.reject()), or it returns (a promise of) its items
Outcomes == {"throws", "rejects", "rejectsUndefined", "resolves"}

Rejections == {"rejects", "rejectsUndefined"}

TemplateItems == << [label |-> "bar"] >>
ScriptItems   == << [label |-> "foo"] >>
ReferenceItems == << [label |-> "location"] >>

\* the walkSync results of the modelled workspace: the marker files present,
\* in walk order, each package.json with what the project-kind test does on it
RECURSIVE ScanOf(_, _)
ScanOf(present, kindOf) ==
  IF present = {} THEN <<>>
  ELSE LET i == CHOOSE k \in present : \A j \in present : k <= j
       IN << [file |-> WalkOrder[i],
              kind |-> IF i \in DOMAIN kindOf THEN kindOf[i] ELSE "n/a"] >>
          \o ScanOf(present \ {i}, kindOf)

IsPackageJson(i) == EndsWith(WalkOrder[i], PackageJson)

Scans ==
  UNION { { ScanOf(present, kindOf) :
              kindOf \in [{ i \in present : IsPackageJson(i) } -> ManifestKinds] } :
          present \in { S \in SUBSET DOMAIN WalkOrder : Cardinality(S) <= MaxScan } }

----------------------------------------------------------------------------
(* The state machine *)

Init ==
  /\ projects = <<>>
  /\ workspaceRoot = <<>>
  /\ nextId = 1
  /\ hookCalls = <<>>
  /\ initializeCount = 0
  /\ completion = Idle
  /\ response = NoResponse

Registry == [projects |-> projects, nextId |-> nextId, hookCalls |-> <<>>]

\* onExecute without the test of the command name: every command registers
\* its second parameter
onExecuteAnyCommand(command, path) ==
  /\ nextId <= MaxProjects
  /\ LET st == onProjectAdd(Registry, path)
     IN /\ projects' = st.projects
        /\ nextId' = st.nextId
        /\ hookCalls' = st.hookCalls
  /\ response' = [NoResponse EXCEPT !.op = "executeCommand",
                    !.params = [command |-> command, path |-> path],
                    !.result = <<command, path>>]
  /\ UNCHANGED <<workspaceRoot, initializeCount, completion>>

\* Server.onExecute(params): params = [command, path]
onExecute(command, path) ==
  /\ command = RegisterCommand => nextId <= MaxProjects
  /\ LET st == IF command = RegisterCommand
               THEN onProjectAdd(Registry, path)
               ELSE Registry
     IN /\ projects' = st.projects
        /\ nextId' = st.nextId
        /\ hookCalls' = st.hookCalls
  /\ response' = [NoResponse EXCEPT !.op = "executeCommand",
                    !.params = [command |-> command, path |-> path],
                    !.result = <<command, path>>]
  /\ UNCHANGED <<workspaceRoot, initializeCount, completion>>

\* Server.onInitialize({rootUri, rootPath}) with ProjectRoots.initialize; roots
\* is what walkSync finds under the workspace root
onInitialize(rootUri, rootPath, roots) ==
  /\ initializeCount < MaxInitialize
  /\ initializeCount' = initializeCount + 1
  /\ LET resolved == IF rootUri # NullUri THEN filePathOf[rootUri] ELSE rootPath
     IN IF resolved = <<>>
        THEN /\ roots = <<>>
             /\ response' = [NoResponse EXCEPT !.op = "initialize", !.uri = rootUri,
                               !.rootPath = rootPath]
             /\ hookCalls' = <<>>
             /\ UNCHANGED <<projects, workspaceRoot, nextId>>
        ELSE LET st == ScanRoots(Registry, resolved, roots)
             IN /\ st.nextId <= MaxProjects + 1
                /\ workspaceRoot' = resolved
                /\ projects' = st.projects
                /\ nextId' = st.nextId
                /\ hookCalls' = st.hookCalls
                /\ response' = [NoResponse EXCEPT !.op = "initialize",
                                  !.uri = rootUri,
                                  !.rootPath = rootPath,
                                  !.scan = roots,
                                  !.capabilities = FullCapabilities]
  /\ UNCHANGED completion

\* the filter with the test of the index inverted: indexOf(extension) !== 0
RejectsFirstExtension(provider, extension) ==
  ~(Len(provider.extensions) >= 1 /\ provider.extensions[1] = extension)

\* the filter callback of onDocumentSymbol:
\* provider.extensions.indexOf(extension) !== -1
HandlesExtension(provider, extension) ==
  \E i \in DOMAIN provider.extensions : provider.extensions[i] = extension

\* DocumentSymbolProvider.process(content) of a provider that returns
ProcessOutput(provider, content) ==
  << [by |-> provider.name, content |-> content] >>

RECURSIVE MapProcess(_, _, _)
\* providers.map((provider) => provider.process(content)): the providers are
\* called in order; the first one that throws ends the map with its error
MapProcess(providers, content, throwers) ==
  IF providers = <<>> THEN [status |-> "ok", outputs |-> <<>>, invoked |-> <<>>]
  ELSE LET p == Head(providers)
       IN IF p.name \in throwers
          THEN [status |-> "error", outputs |-> <<>>, invoked |-> <<p.name>>]
          ELSE LET rest == MapProcess(Tail(providers), content, throwers)
               IN [status |-> rest.status,
                   outputs |-> IF rest.status = "ok"
                               THEN <<ProcessOutput(p, content)>> \o rest.outputs
                               ELSE <<>>,
                   invoked |-> <<p.name>> \o rest.invoked]

RECURSIVE ReduceConcat(_, _)
\* Array.prototype.reduce((a, b) => a.concat(b), acc)
ReduceConcat(outputs, acc) ==
  IF outputs = <<>> THEN acc
  ELSE ReduceConcat(Tail(outputs), acc \o Head(outputs))

\* what Server.onDocumentSymbol does on uri when the file is readable or not
\* and the providers in throwers throw from process
DocumentSymbol(uri, readable, throwers) ==
  LET filePath == uriToFilePath(uri)
      extension == PathExtname(filePath)
      providers == SelectSeq(documentSymbolProviders,
                             LAMBDA provider : HandlesExtension(provider, extension))
      mapped == MapProcess(providers, "content", throwers)
      base == [NoResponse EXCEPT !.op = "documentSymbol", !.uri = uri,
                 !.readable = readable, !.throwers = throwers]
  IN IF filePath = <<>> THEN base
     ELSE IF Len(providers) = 0 THEN base
     ELSE IF ~readable THEN [base EXCEPT !.status = "error", !.reads = 1]
     ELSE [base EXCEPT !.status = mapped.status, !.reads = 1,
             !.invoked = mapped.invoked,
             !.result = ReduceConcat(mapped.outputs, <<>>)]

ProviderNames ==
  { documentSymbolProviders[i].name : i \in DOMAIN documentSymbolProviders }

\* DocumentSymbol, tabulated over the requests of the model
documentSymbolOf ==
  [uri \in SymbolUris, readable \in BOOLEAN, throwers \in SUBSET ProviderNames |->
     DocumentSymbol(uri, readable, throwers)]

\* Server.onDocumentSymbol(params)
onDocumentSymbol(uri, readable, throwers) ==
  /\ response' = documentSymbolOf[uri, readable, throwers]
  /\ hookCalls' = <<>>
  /\ UNCHANGED <<projects, workspaceRoot, nextId, initializeCount, completion>>

\* Server.onReference(params): the request fails when provideReferences throws
\* or rejects
onReference(outcome) ==
  /\ response' = [NoResponse EXCEPT !.op = "references", !.script = outcome,
                    !.status = IF outcome = "resolves" THEN "ok" ELSE "error",
                    !.result = IF outcome = "resolves" THEN ReferenceItems ELSE <<>>,
                    !.invoked = <<"referenceProvider">>]
  /\ hookCalls' = <<>>
  /\ UNCHANGED <<projects, workspaceRoot, nextId, initializeCount, completion>>

\* TemplateLinter.lint(document): the linter is handed the changed document;
\* it returns nothing to the handler and does not write the registry
lint(uri) ==
  [NoResponse EXCEPT !.op = "didChangeContent", !.uri = uri,
     !.invoked = <<"templateLinter">>]

\* Server.onDidChangeContent(change)
onDidChangeContent(uri) ==
  /\ response' = lint(uri)
  /\ hookCalls' = <<>>
  /\ UNCHANGED <<projects, workspaceRoot, nextId, initializeCount, completion>>

\* Server.onDidChangeWatchedFiles(): an empty body
onDidChangeWatchedFiles ==
  /\ response' = [NoResponse EXCEPT !.op = "didChangeWatchedFiles"]
  /\ hookCalls' = <<>>
  /\ UNCHANGED <<projects, workspaceRoot, nextId, initializeCount, completion>>

\* the response of a finished onCompletion: it returns completionItems
CompletionResponse(c, items) ==
  [NoResponse EXCEPT !.op = "completion", !.template = c.template,
     !.script = c.script, !.invoked = c.invoked, !.result = items]

\* the catch block of onCompletion, entered with the value e that outcome
\* threw or rejected with: log(..., e, e.toString()) evaluates e.toString()
\* first, which is a TypeError when e is undefined, and the handler rejects;
\* otherwise the handler goes on to return the empty completionItems
Caught(c, outcome) ==
  IF outcome = "rejectsUndefined"
  THEN [CompletionResponse(c, <<>>) EXCEPT !.status = "error"]
  ELSE CompletionResponse(c, <<>>)

\* Server.onCompletion up to its first suspension, when the two providers
\* behave as template and script say: the first element of the array literal
\* calls the template provider and awaits what it returned; a synchronous
\* throw is caught and the handler returns the empty list
onCompletion(template, script) ==
  /\ completion.pc = "idle"
  /\ LET c == [Idle EXCEPT !.template = template, !.script = script,
                 !.invoked = <<"template">>]
     IN IF template = "throws"
        THEN /\ completion' = Idle
             /\ response' = Caught(c, template)
             /\ hookCalls' = <<>>
        ELSE /\ completion' = [c EXCEPT !.pc = "awaitTemplate"]
             /\ UNCHANGED <<response, hookCalls>>
  /\ UNCHANGED <<projects, workspaceRoot, nextId, initializeCount>>

\* the first await resumes: a rejection is caught and ends the handler with
\* the empty list; otherwise the second element of the array literal calls the
\* script provider and awaits what it returned
TemplateSettles ==
  /\ completion.pc = "awaitTemplate"
  /\ IF completion.template \in Rejections
     THEN /\ completion' = Idle
          /\ response' = Caught(completion, completion.template)
          /\ hookCalls' = <<>>
     ELSE LET c == [completion EXCEPT !.templateCompletions = TemplateItems,
                      !.invoked = Append(completion.invoked, "script")]
          IN IF completion.script = "throws"
             THEN /\ completion' = Idle
                  /\ response' = Caught(c, completion.script)
                  /\ hookCalls' = <<>>
             ELSE /\ completion' = [c EXCEPT !.pc = "awaitScript"]
                  /\ UNCHANGED <<response, hookCalls>>
  /\ UNCHANGED <<projects, workspaceRoot, nextId, initializeCount>>

\* the second await resumes: a rejection is caught; otherwise Promise.all of
\* the two values resolves and both lists are pushed to completionItems
ScriptSettles ==
  /\ completion.pc = "awaitScript"
  /\ completion' = Idle
  /\ response' = IF completion.script \in Rejections
                 THEN Caught(completion, completion.script)
                 ELSE CompletionResponse(completion,
                        completion.templateCompletions \o ScriptItems)
  /\ hookCalls' = <<>>
  /\ UNCHANGED <<projects, workspaceRoot, nextId, initializeCount>>

----------------------------------------------------------------------------
(* The requests a client sends, and the specifications *)

ExecuteCommand ==
  \E command \in {RegisterCommand, "els:other"}, path \in CommandPaths :
    onExecute(command, path)

\* the {rootUri, rootPath} of an initialize request: neither, rootPath alone,
\* a file: rootUri alone, and a rootUri that is no file: URI beside a rootPath
InitializeParams ==
  { [rootUri |-> NullUri, rootPath |-> <<>>],
    [rootUri |-> NullUri, rootPath |-> WsRoot],
    [rootUri |-> FileUri(WsRoot), rootPath |-> <<>>],
    [rootUri |-> [protocol |-> "untitled:", path |-> WsRoot], rootPath |-> WsRoot] }

Initialize ==
  \E params \in InitializeParams, roots \in Scans :
    onInitialize(params.rootUri, params.rootPath, roots)

DocumentSymbolRequest ==
  \E uri \in SymbolUris, readable \in BOOLEAN, throwers \in SUBSET ProviderNames :
    onDocumentSymbol(uri, readable, throwers)

ReferenceRequest == \E outcome \in Outcomes : onReference(outcome)

CompletionRequest ==
  \E template \in Outcomes, script \in Outcomes : onCompletion(template, script)

DidChangeContent == \E uri \in SymbolUris : onDidChangeContent(uri)

DidChangeWatchedFiles == onDidChangeWatchedFiles

\* registration only: the scan and the register command
NextRegistry == ExecuteCommand \/ Initialize

\* the per-document requests only
NextRequests ==
  \/ DocumentSymbolRequest
  \/ ReferenceRequest
  \/ CompletionRequest
  \/ TemplateSettles
  \/ ScriptSettles
  \/ DidChangeContent
  \/ DidChangeWatchedFiles

\* the commands and the per-document requests, without the scan
NextFrame == ExecuteCommand \/ NextRequests

Next == NextRegistry \/ NextRequests

\* every handler of the server
Spec == Init /\ [][Next]_vars

\* the register command among the per-document requests
SpecFrame == Init /\ [][NextFrame]_vars

\* the registry under the scan and the register command
SpecRegistry == Init /\ [][NextRegistry]_vars

\* the request handlers, which never write the registry
SpecRequests == Init /\ [][NextRequests]_vars

----------------------------------------------------------------------------
(* Properties of the registry *)

\* r is a string prefix of d
StringPrefix(r, d) ==
  Len(r) <= Len(d) /\ \A k \in 1..Len(r) : r[k] = d[k]

\* the entries of the registry whose root is a string prefix of path d
PrefixEntries(d) == { i \in DOMAIN projects : StringPrefix(projects[i].key, d) }

\* C1: for every document path D, projectForUri returns the project of a
\* registered root that is a string prefix of D and is at least as long as
\* every registered root that is a prefix of D, and returns no project when
\* no registered root is a prefix of D.
C1_LongestPrefix ==
  \A uri \in DocUris :
    LET d == filePathOf[uri]
        p == projectForUri(uri)
    IN d # <<>> =>
         IF PrefixEntries(d) = {} THEN p = NoProject
         ELSE \E i \in PrefixEntries(d) :
                /\ p = projects[i].value
                /\ \A j \in PrefixEntries(d) :
                     Len(projects[j].key) <= Len(projects[i].key)

\* C1 witness: two registered roots are prefixes of one document path and the
\* longer one owns it
C1_Witness ==
  \E uri \in DocUris :
    /\ Cardinality(PrefixEntries(filePathOf[uri])) >= 2
    /\ projectForUri(uri) # NoProject
    /\ \A j \in PrefixEntries(filePathOf[uri]) :
         Len(projects[j].key) <= Len(projectForUri(uri).root)

\* path d names a file located in directory dir, at any depth
InDirectory(d, dir) == StringPrefix(dir \o <<"/">>, d)

\* the directories of the marker files of a scan that make a project: every
\* ember-cli-build.js, and every package.json of a Glimmer project
ProjectDirectories(roots) ==
  { markerPaths[WsRoot, roots[i].file].fullPath :
      i \in { k \in DOMAIN roots : roots[k].kind \in {"n/a", "glimmer"} } }

\* C2: after initialize on a workspace whose project directories are A and B
\* (neither inside the other), a file inside A resolves to A's project, a
\* file inside B to B's project, and a file in neither directory to no
\* project.
C2_TwoDirectories ==
  \A a, b \in DOMAIN projects :
    LET A == projects[a].key
        B == projects[b].key
    IN ( /\ response.op = "initialize"
         /\ Len(projects) = 2
         /\ ProjectDirectories(response.scan) = {A, B}
         /\ a # b
         /\ ~InDirectory(A, B) /\ ~InDirectory(B, A) )
       => \A uri \in DocUris :
            LET d == filePathOf[uri]
            IN d # <<>> =>
                 /\ InDirectory(d, A) => projectForUri(uri) = projects[a].value
                 /\ InDirectory(d, B) => projectForUri(uri) = projects[b].value
                 /\ (~InDirectory(d, A) /\ ~InDirectory(d, B))
                      => projectForUri(uri) = NoProject

\* C7: a registration never changes the project a document resolves to,
\* unless the document then resolves to a newly registered root that is a
\* strictly longer prefix of its path.
C7_NonDestructive ==
  [][ \A uri \in DocUris :
        LET p == ProjectFor(projects, uri)
            q == ProjectFor(projects', uri)
        IN p # NoProject =>
             \/ q = p
             \/ /\ q # NoProject
                /\ ~MapHas(projects, q.root)
                /\ StringPrefix(q.root, filePathOf[uri])
                /\ Len(q.root) > Len(p.root) ]_vars

\* C8: the registry only grows: an entry, once inserted, stays at its place
\* bound to the same Project object.
C8_GrowOnly ==
  [][ \A i \in DOMAIN projects :
        i \in DOMAIN projects' /\ projects'[i] = projects[i] ]_vars

\* the init hooks of the project at path, each with the path it is to be
\* called with, in provider order
HooksOf(path) ==
  LET handlers == collectProjectProviders(path).initHandlers
  IN [i \in DOMAIN handlers |-> [handler |-> handlers[i].name, path |-> path]]

RECURSIVE HooksOfScan(_)
\* the hooks of the project directories of a scan, in scan order
HooksOfScan(roots) ==
  IF roots = <<>> THEN <<>>
  ELSE (IF Head(roots).kind \in {"n/a", "glimmer"}
        THEN HooksOf(markerPaths[WsRoot, Head(roots).file].fullPath)
        ELSE <<>>)
       \o HooksOfScan(Tail(roots))

\* the hook and the path of each logged call
CalledHooks ==
  [i \in DOMAIN hookCalls |->
     [handler |-> hookCalls[i].handler, path |-> hookCalls[i].path]]

\* C9: when the register command has run onProjectAdd(path), the root is in
\* the registry and the init hooks of the new project were each called once,
\* in provider order, with the path and the server, whether or not a hook
\* threw; the same holds of every onProjectAdd of a scan.
C9_InitHooks ==
  /\ ( response.op = "executeCommand" /\ response.params.command = RegisterCommand )
     => LET path == response.params.path
        IN /\ MapHas(projects, path)
           /\ MapGet(projects, path).root = path
           /\ CalledHooks = HooksOf(path)
           /\ \A i \in DOMAIN hookCalls :
                /\ hookCalls[i].server = "Server"
                /\ hookCalls[i].project = MapGet(projects, path).id
  /\ ( response.op = "initialize" /\ response.capabilities # {} )
     => /\ CalledHooks = HooksOfScan(response.scan)
        /\ \A i \in DOMAIN hookCalls :
             /\ hookCalls[i].server = "Server"
             /\ MapHas(projects, hookCalls[i].path)

\* C9 witness: a hook threw and the hook after it was still called, and the
\* root is registered
C9_Witness ==
  /\ response.op = "executeCommand"
  /\ response.params.command = RegisterCommand
  /\ MapHas(projects, response.params.path)
  /\ \E i, j \in DOMAIN hookCalls : i < j /\ hookCalls[i].threw

----------------------------------------------------------------------------
(* Properties of the request handlers *)

\* the items the providers that succeeded in a completion request contribute
SucceededItems(template, script) ==
  (IF template = "resolves" THEN TemplateItems ELSE <<>>)
  \o (IF script = "resolves" THEN ScriptItems ELSE <<>>)

\* C3: a completion request returns the concatenation of the items of every
\* provider that succeeded; in particular, when the template provider throws
\* or rejects and the script provider returns [foo], it returns exactly [foo].
C3_CompletionIsolation ==
  response.op = "completion"
  => response.result = SucceededItems(response.template, response.script)

\* the providers of the server that declare the extension of a document
Declares(provider, path) ==
  PathExtname(path) \in { provider.extensions[i] : i \in DOMAIN provider.extensions }

MatchingProviders(path) ==
  SelectSeq(documentSymbolProviders, LAMBDA provider : Declares(provider, path))

RECURSIVE OutputsOf(_, _)
\* the outputs, in provider order, of the providers that do not throw
OutputsOf(providers, throwers) ==
  IF providers = <<>> THEN <<>>
  ELSE (IF Head(providers).name \in throwers THEN <<>>
        ELSE ProcessOutput(Head(providers), "content"))
       \o OutputsOf(Tail(providers), throwers)

\* C4: a symbol provider that throws does not make the document-symbol
\* request fail and does not remove the results of the other matching
\* providers; a reference provider that throws yields an empty result, not a
\* failed request.
C4_ProviderIsolation ==
  /\ ( response.op = "documentSymbol" /\ response.readable )
     => /\ response.status = "ok"
        /\ response.result =
             OutputsOf(MatchingProviders(filePathOf[response.uri]), response.throwers)
  /\ ( response.op = "references" /\ response.script # "resolves" )
     => /\ response.status = "ok"
        /\ response.result = <<>>

\* C5: a document-symbol request for a URI with no file path, or for a file
\* that cannot be read, returns the empty sequence and raises no error.
C5_EmptyCases ==
  ( /\ response.op = "documentSymbol"
    /\ (filePathOf[response.uri] = <<>> \/ ~response.readable) )
  => /\ response.status = "ok"
     /\ response.result = <<>>

\* C6: once els:registerProjectPath has registered P, a file under P resolves
\* to the project of P, and a document-symbol request on it is served by the
\* symbol providers of that project, built-in then addon-contributed.
C6_LateRegistration ==
  /\ ( response.op = "executeCommand" /\ response.params.command = RegisterCommand )
     => \A uri \in DocUris :
          ( /\ InDirectory(filePathOf[uri], response.params.path)
            /\ \A j \in PrefixEntries(filePathOf[uri]) :
                 Len(projects[j].key) <= Len(response.params.path) )
          => projectForUri(uri).root = response.params.path
  /\ ( /\ response.op = "documentSymbol"
       /\ response.readable /\ response.throwers = {}
       /\ projectForUri(response.uri) # NoProject )
     => LET owner == projectForUri(response.uri)
            path == filePathOf[response.uri]
            serving == SelectSeq(owner.builtinProviders.symbolProviders
                                   \o owner.providers.symbolProviders,
                                 LAMBDA provider : Declares(provider, path))
        IN /\ response.status = "ok"
           /\ response.result = OutputsOf(serving, {})

\* C10 as claimed: a symbol provider is invoked if and only if it declares the
\* extension of the document; when no provider matches the result is empty
\* and no file content is read.
C10_InvokedIffDeclared ==
  ( response.op = "documentSymbol" /\ filePathOf[response.uri] # <<>> )
  => LET path == filePathOf[response.uri]
         called == { response.invoked[i] : i \in DOMAIN response.invoked }
     IN /\ \A k \in DOMAIN documentSymbolProviders :
             documentSymbolProviders[k].name \in called
               <=> Declares(documentSymbolProviders[k], path)
        /\ MatchingProviders(path) = <<>>
             => /\ response.status = "ok"
                /\ response.result = <<>>
                /\ response.reads = 0

\* C10 as amended: a symbol provider is invoked only if it declares the
\* extension of the document, and is invoked whenever it does and the file
\* content could be read; when no provider matches the result is empty and
\* no file content is read.
C10_ExtensionFiltering ==
  ( response.op = "documentSymbol" /\ filePathOf[response.uri] # <<>> )
  => LET path == filePathOf[response.uri]
         called == { response.invoked[i] : i \in DOMAIN response.invoked }
     IN /\ \A k \in DOMAIN documentSymbolProviders :
             /\ documentSymbolProviders[k].name \in called
                  => Declares(documentSymbolProviders[k], path)
             /\ ( Declares(documentSymbolProviders[k], path) /\ response.readable )
                  => documentSymbolProviders[k].name \in called
        /\ MatchingProviders(path) = <<>>
             => /\ response.status = "ok"
                /\ response.result = <<>>
                /\ response.reads = 0

\* C10 witness: a readable .hbs document was served by the .hbs provider and
\* the .js provider was not called
C10_Witness ==
  /\ response.op = "documentSymbol"
  /\ response.readable
  /\ PathExtname(filePathOf[response.uri]) = ExtHbs
  /\ response.invoked = <<"HBSDocumentSymbolProvider">>

----------------------------------------------------------------------------
(* Properties of initialization *)

\* the roots of the registry m
RootsOf(m) == { m[i].key : i \in DOMAIN m }

\* the capability advertisement of the server with the text-sync mode
Advertisement ==
  {"definitionProvider", "documentSymbolProvider", "referencesProvider",
   "completionProvider", "executeCommandProvider:els:registerProjectPath",
   "textDocumentSync"}

\* the file path a rootUri stands for, none for a null rootUri
RootUriPath(rootUri) == IF rootUri = NullUri THEN <<>> ELSE filePathOf[rootUri]

\* what an initialize step must do when the workspace root of its request is
\* root (<<>>: there is none)
InitializeAnswers(root) ==
  /\ response'.op = "initialize"
  /\ response'.status = "ok"
  /\ IF root # <<>>
     THEN /\ response'.capabilities = Advertisement
          /\ workspaceRoot' = root
          /\ ProjectDirectories(response'.scan) \subseteq RootsOf(projects')
     ELSE /\ response'.capabilities = {}
          /\ projects' = projects

----------------------------------------------------------------------------
(* Properties of the completion fan-out and of symbol aggregation *)

\* C12: completion fan-out is concurrent: while the template provider has not
\* finished the script provider has already been started, and every finished
\* completion request has invoked both providers.
C12_ConcurrentFanOut ==
  /\ completion.pc = "awaitTemplate"
     => \E i \in DOMAIN completion.invoked : completion.invoked[i] = "script"
  /\ response.op = "completion"
     => { response.invoked[i] : i \in DOMAIN response.invoked } = {"template", "script"}

\* C13: a completion request never fails: whatever the two providers do
\* (return items, throw, reject), onCompletion resolves with a list of items,
\* and when both succeed the list is the template items followed by the
\* script items.
C13_NeverRejects ==
  response.op = "completion"
  => /\ response.status = "ok"
     /\ ( response.template = "resolves" /\ response.script = "resolves" )
        => response.result = TemplateItems \o ScriptItems

RECURSIVE NamesOf(_)
NamesOf(providers) ==
  IF providers = <<>> THEN <<>>
  ELSE <<Head(providers).name>> \o NamesOf(Tail(providers))

\* C14: when at least one symbol provider matches the extension of the
\* document and the file is readable, onDocumentSymbol reads the file once,
\* invokes each matching provider exactly once, in provider order, and returns
\* the concatenation of their outputs in that order.
C14_AggregationOrder ==
  LET matching == MatchingProviders(filePathOf[response.uri])
  IN ( /\ response.op = "documentSymbol"
       /\ response.readable
       /\ Len(matching) >= 1 )
     => /\ response.status = "ok"
        /\ response.reads = 1
        /\ response.invoked = NamesOf(matching)
        /\ response.result = OutputsOf(matching, {})

----------------------------------------------------------------------------
(* Properties of the scan *)

\* the candidates of a scan that are to be registered: every build-config
\* marker, and every package.json whose project-kind test passes
Registering(roots) ==
  { i \in DOMAIN roots :
      \/ EndsWith(roots[i].file, EmberCliBuild)
      \/ EndsWith(roots[i].file, PackageJson) /\ roots[i].kind = "glimmer" }

MarkerDirectory(entry) == PathDirname(PathJoin(WsRoot, entry.file))

\* C15: an initialize that scans registers the directory of every
\* ember-cli-build.js, and the directory of a package.json exactly when the
\* project-kind test passes; a candidate whose test throws is dropped and the
\* candidates after it are still processed (one onProjectAdd per registering
\* candidate, nested directories included, and no other).
C15_ScanClassification ==
  [][ ( initializeCount' # initializeCount /\ response'.capabilities # {} )
      => LET scan == response'.scan
         IN /\ RootsOf(projects') =
                 RootsOf(projects) \cup
                 { MarkerDirectory(scan[i]) : i \in Registering(scan) }
            /\ nextId' - nextId = Cardinality(Registering(scan)) ]_vars

\* C15 witness: a scan in which the project-kind test threw on one candidate
\* and a later candidate was registered
C15_Witness ==
  /\ response.op = "initialize"
  /\ \E i, j \in DOMAIN response.scan :
       /\ i < j
       /\ response.scan[i].kind = "malformed"
       /\ ~MapHas(projects, MarkerDirectory(response.scan[i]))
       /\ j \in Registering(response.scan)
       /\ MapHas(projects, MarkerDirectory(response.scan[j]))

\* C15 witness of nesting: a scan registered a directory and a directory
\* inside it, each as its own root
C15_NestedWitness ==
  /\ response.op = "initialize"
  /\ \E i, j \in Registering(response.scan) :
       /\ InDirectory(MarkerDirectory(response.scan[j]) \o <<"/", "x">>,
                      MarkerDirectory(response.scan[i]))
       /\ MarkerDirectory(response.scan[i]) # MarkerDirectory(response.scan[j])
       /\ MapHas(projects, MarkerDirectory(response.scan[i]))
       /\ MapHas(projects, MarkerDirectory(response.scan[j]))

----------------------------------------------------------------------------
(* The frame of the requests *)

\* C16: a step that constructs no project leaves the registry as it was, and
\* the only step that constructs one is an executeCommand named
\* els:registerProjectPath, which adds exactly the root given as its path and
\* leaves every other entry alone; executeCommand answers its parameters
\* unchanged, whatever the command.
C16_Frame ==
  [][ /\ IF nextId' # nextId
         THEN /\ response'.op = "executeCommand"
              /\ response'.params.command = RegisterCommand
              /\ nextId' = nextId + 1
              /\ RootsOf(projects') = RootsOf(projects) \cup {response'.params.path}
              /\ \A root \in RootsOf(projects) \ {response'.params.path} :
                   MapGet(projects', root) = MapGet(projects, root)
         ELSE projects' = projects
      /\ response'.op = "executeCommand"
         => response'.result = <<response'.params.command, response'.params.path>>
    ]_vars

\* C16 witness: a command with another name was answered while the registry
\* holds roots and a completion request is in flight
C16_Witness ==
  /\ response.op = "executeCommand"
  /\ response.params.command # RegisterCommand
  /\ response.result = <<response.params.command, response.params.path>>
  /\ Len(projects) >= 2
  /\ completion.pc = "awaitScript"

----------------------------------------------------------------------------
(* Construction and publication of a project *)

----------------------------------------------------------------------------
(* Atomicity of the scan *)

\* C18: an initialize with a resolvable root registers every root its scan
\* discovers within the one step that answers it; a step of any other handler
\* constructs at most the one project of its own command, so no handler runs
\* between two registrations of a scan; roots are never removed; and the init
\* hooks logged by a step belong to projects constructed in that very step.
C18_ScanAtomic ==
  [][ /\ ( initializeCount' # initializeCount /\ response'.capabilities # {} )
         => /\ ProjectDirectories(response'.scan) \subseteq RootsOf(projects')
            /\ nextId' - nextId = Cardinality(Registering(response'.scan))
      /\ initializeCount' = initializeCount => nextId' - nextId \in {0, 1}
      /\ RootsOf(projects) \subseteq RootsOf(projects')
      /\ \A k \in DOMAIN hookCalls' :
           /\ nextId <= hookCalls'[k].project
           /\ hookCalls'[k].project < nextId'
    ]_vars

\* C18 witness: a scan registered two roots, and a hook of the first ran
\* before the second was registered
C18_Witness ==
  /\ response.op = "initialize"
  /\ Cardinality(ProjectDirectories(response.scan)) >= 2
  /\ ProjectDirectories(response.scan) \subseteq RootsOf(projects)
  /\ \E k \in DOMAIN hookCalls : hookCalls[k].project < nextId - 1

----------------------------------------------------------------------------
(* Ownership and the order of registration *)

\* the registry m with its entries in the order f
Reordered(m, f) == [i \in DOMAIN m |-> m[f[i]]]

\* the entries whose root is a prefix of path d of the greatest length
MaximalEntries(d) ==
  { i \in PrefixEntries(d) :
      \A j \in PrefixEntries(d) : Len(projects[j].key) <= Len(projects[i].key) }

\* C19: for every document, at most one registered root is a prefix of its
\* path of maximal length, and projectForUri answers the same project for
\* every order in which the roots of the registry could have been inserted.
C19_OrderIndependent ==
  \A uri \in DocUris :
    /\ Cardinality(MaximalEntries(filePathOf[uri])) <= 1
    /\ \A f \in Permutations(DOMAIN projects) :
         ProjectFor(Reordered(projects, f), uri) = projectForUri(uri)

\* C19 witness: the longer of two roots that are prefixes of one document was
\* registered first, and it owns the document
C19_Witness ==
  \E uri \in DocUris :
    /\ Len(projects) >= 2
    /\ {1, 2} \subseteq PrefixEntries(filePathOf[uri])
    /\ Len(projects[1].key) > Len(projects[2].key)
    /\ projectForUri(uri) = projects[1].value

====
